---- MODULE Spec2Model ----
(***************************************************************************)
(* Model of psy/irt/mirm.py: class Mirt, the EM estimator of a             *)
(* multidimensional two-parameter logistic item response model.            *)
(*                                                                         *)
(* Arrays are functions over the source's 0-based indices: a matrix is     *)
(* [0..rows-1 -> [0..cols-1 -> Int]], a vector is [0..len-1 -> Int].       *)
(* Floating point values are modelled by integers; the collaborators'      *)
(* outputs (quadrature nodes, E-step residual and curvature) are inputs    *)
(* drawn from small sets chosen so that every Newton step is integral.     *)
(***************************************************************************)
EXTENDS Integers, Sequences, FiniteSets, TLC

\* ------------------------------------------------------------------ bounds
MaxDim == 3
MaxItems == 2
MaxIter == 2
MaxHessDim == 5

\* ------------------------------------------------------------------ helpers
Abs(x) == IF x < 0 THEN -x ELSE x

Max2(a, b) == IF a >= b THEN a ELSE b

Min2(a, b) == IF a <= b THEN a ELSE b

SetMax(S) == CHOOSE x \in S : \A y \in S : y <= x

\* the function f itself, tabulated once rather than recomputed at every use
Dense(f) == IF f = f THEN f ELSE f

RECURSIVE SumTo(_, _)
\* sum of f[0] .. f[m-1]
SumTo(f, m) == IF m = 0 THEN 0 ELSE f[m - 1] + SumTo(f, m - 1)

\* np.max(np.abs(m)) of a rows x cols matrix
MaxAbs(m, rows, cols) ==
  SetMax({0} \cup {Abs(m[r][c]) : r \in 0..(rows - 1), c \in 0..(cols - 1)})

\* ------------------------------------------------------------------ _get_theta_comb
Pairs(D) == {p \in (0..(D - 1)) \X (0..(D - 1)) : p[1] < p[2]}

LexLess(p, q) == p[1] < q[1] \/ (p[1] = q[1] /\ p[2] < q[2])

\* list(combinations(range(dim_size), 2)): the pairs in lexicographic order
get_theta_comb(D) ==
  Dense([k \in 0..(Cardinality(Pairs(D)) - 1) |->
           CHOOSE p \in Pairs(D) : Cardinality({q \in Pairs(D) : LexLess(q, p)}) = k])

\* len(self._theta_comb)
NumComb(D) == (D * (D - 1)) \div 2

\* number of columns of the extended design matrix and of fake_hess
HessWidth(D) == 1 + D + D + NumComb(D)

\* ------------------------------------------------------------------ _get_theta_mat
\* theta: [0..nn-1 -> [0..D-1 -> Int]]; columns 1 | theta | theta^2 | products
get_theta_mat(theta, theta_comb, nn, D) ==
  LET comb == theta_comb
      width == HessWidth(D)
  IN Dense([r \in 0..(nn - 1) |->
       [c \in 0..(width - 1) |->
          IF c = 0 THEN 1
          ELSE IF c <= D THEN theta[r][c - 1]
          ELSE IF c <= D + D THEN theta[r][c - D - 1] * theta[r][c - D - 1]
          ELSE theta[r][comb[c - D - D - 1][1]] * theta[r][comb[c - D - D - 1][2]]]])

\* ------------------------------------------------------------------ _get_hess
\* hess[a, b] = val on a param_size x param_size array; an index outside the
\* array raises IndexError and leaves the array as it was
InRange(a, b, param_size) == a < param_size /\ b < param_size

SetEntry(hess, a, b, val) == [hess EXCEPT ![a][b] = val]

\* the two assignments of one turn of the interaction loop, lines 94-95
FillPairAsym(hess, comb, val) == SetEntry(hess, comb[1] + 1, comb[2] + 1, val)

FillPair(hess, comb, val) ==
  SetEntry(SetEntry(hess, comb[1] + 1, comb[2] + 1, val), comb[2] + 1, comb[1] + 1, val)

RECURSIVE PairLoop(_, _, _, _, _, _)
\* for k, comb in enumerate(self._theta_comb): try ... except IndexError: break
PairLoop(h, vals, theta_comb, D, param_size, k) ==
  IF k >= NumComb(D) THEN h
  ELSE IF ~InRange(theta_comb[k][1] + 1, theta_comb[k][2] + 1, param_size) THEN h
  ELSE PairLoop(FillPair(h, theta_comb[k], vals[D + 1 + D + k]),
                vals, theta_comb, D, param_size, k + 1)

\* vals is hess_vals[i], one row of fake_hess
get_hess(vals, theta_comb, D, fix_param_size) ==
  LET param_size == D + 1 - fix_param_size
      idx == 0..(param_size - 1)
      zeros == [p \in idx |-> [q \in idx |-> 0]]
      row0 == [zeros EXCEPT ![0] = [q \in idx |-> vals[q]]]
      col0 == [p \in idx |-> IF p >= 1 THEN [row0[p] EXCEPT ![0] = vals[p]] ELSE row0[p]]
      diag == [p \in idx |-> IF p >= 1 THEN [col0[p] EXCEPT ![p] = vals[D + p]] ELSE col0[p]]
  IN Dense(PairLoop(Dense(diag), vals, theta_comb, D, param_size, 0))

\* ------------------------------------------------------------------ linear algebra
\* M with row 0 and column c removed, M being m x m
Minor(M, m, c) ==
  Dense([p \in 0..(m - 2) |-> [q \in 0..(m - 2) |-> M[p + 1][IF q < c THEN q ELSE q + 1]]])

RECURSIVE Det(_, _)
Det(M, m) ==
  IF m = 0 THEN 1
  ELSE IF m = 1 THEN M[0][0]
  ELSE IF m = 2 THEN M[0][0] * M[1][1] - M[0][1] * M[1][0]
  ELSE SumTo([c \in 0..(m - 1) |->
               (IF c % 2 = 0 THEN 1 ELSE -1) * M[0][c] * Det(Minor(M, m, c), m - 1)], m)

Singular == "LinAlgError"

\* np.linalg.solve(hess, jac): the x with hess . x = jac (Cramer's rule), or
\* LinAlgError when hess is singular
Solve(h, jac, m) ==
  LET d == Det(h, m) IN
  IF d = 0 THEN [err |-> Singular, x |-> <<>>]
  ELSE [err |-> "none",
        x |-> Dense([p \in 0..(m - 1) |->
                 Det(Dense([r \in 0..(m - 1) |->
                        [q \in 0..(m - 1) |-> IF q = p THEN jac[r] ELSE h[r][q]]]), m)
                   \div d])]

\* hess . x = jac holds exactly
Exact(h, jac, x, m) ==
  \A r \in 0..(m - 1) : SumTo([q \in 0..(m - 1) |-> h[r][q] * x[q]], m) = jac[r]

\* ------------------------------------------------------------------ _fix_slop
IndexError == "IndexError"

RECURSIVE FixLoop(_, _, _, _)
\* while temp_idx: self._init_slop[temp_idx][-temp_idx:] = 0; temp_idx -= 1
\* slop has rows x cols entries; row temp_idx must exist
FixLoop(slop, rows, cols, temp_idx) ==
  IF temp_idx = 0 THEN [err |-> "none", slop |-> slop]
  ELSE IF temp_idx >= rows THEN [err |-> IndexError, slop |-> slop]
  ELSE FixLoop([slop EXCEPT ![temp_idx] =
                  [j \in 0..(cols - 1) |-> IF j >= cols - temp_idx THEN 0 ELSE slop[temp_idx][j]]],
               rows, cols, temp_idx - 1)

fix_slop(slop, rows, cols, dim_size) == FixLoop(slop, rows, cols, dim_size - 1)

\* ------------------------------------------------------------------ _m_step
\* jac_all = np.vstack((np.sum(dp, axis=0), np.dot(theta.transpose(), dp)))
JacAll(dp, theta, nn, ni, D) ==
  Dense([p \in 0..D |->
     [i \in 0..(ni - 1) |->
        IF p = 0 THEN SumTo([r \in 0..(nn - 1) |-> dp[r][i]], nn)
        ELSE SumTo([r \in 0..(nn - 1) |-> theta[r][p - 1] * dp[r][i]], nn)]])

\* jac_all[:, i][:self._dim_size - fix_param_size + 1]
get_jac(jac_all, i, D, fix_param_size) ==
  [p \in 0..(D - fix_param_size) |-> jac_all[p][i]]

\* fake_hess = -1 * np.dot(ddp.transpose(), base_hess), line 57
FakeHess(ddp, theta, theta_comb, nn, ni, D) ==
  LET base_hess == get_theta_mat(theta, theta_comb, nn, D)
      width == HessWidth(D)
  IN Dense([i \in 0..(ni - 1) |->
       [c \in 0..(width - 1) |->
          -1 * SumTo([r \in 0..(nn - 1) |-> ddp[r][i] * base_hess[r][c]], nn)]])

\* the body of the while loop for item i, lines 65-74; st holds the arrays the
\* loop writes: slop, threshold, slop_delta_list, threshold_delta_list
ItemBodyWide(st, i, fix_param_size, jac_all, fake_hess, theta_comb, D) ==
  LET jac == get_jac(jac_all, i, D, fix_param_size)
      h == get_hess(fake_hess[i], theta_comb, D, fix_param_size)
      solved == Solve(h, jac, D + 1 - fix_param_size)
      delta == solved.x
      slop_est_param_idx == D - fix_param_size
  IN IF solved.err # "none" THEN [st EXCEPT !.err = Singular, !.failed = i]
     ELSE [st EXCEPT
             !.slop = [k \in 0..(D - 1) |->
                         IF k < slop_est_param_idx
                         THEN [st.slop[k] EXCEPT ![i] = st.slop[k][i] - delta[k + 1]]
                         ELSE st.slop[k]],
             !.threshold = [j \in DOMAIN st.threshold |-> st.threshold[j] - delta[0]],
             !.slop_delta_list = [k \in 0..(D - 1) |->
                         IF k < slop_est_param_idx
                         THEN [st.slop_delta_list[k] EXCEPT ![i] = delta[k + 1]]
                         ELSE st.slop_delta_list[k]],
             !.threshold_delta_list = [st.threshold_delta_list EXCEPT ![i] = delta[0]]]

ItemBody(st, i, fix_param_size, jac_all, fake_hess, theta_comb, D) ==
  LET jac == get_jac(jac_all, i, D, fix_param_size)
      h == get_hess(fake_hess[i], theta_comb, D, fix_param_size)
      solved == Solve(h, jac, D + 1 - fix_param_size)
      delta == solved.x
      slop_est_param_idx == D - fix_param_size
  IN IF solved.err # "none" THEN [st EXCEPT !.err = Singular, !.failed = i]
     ELSE [st EXCEPT
             !.slop = [k \in 0..(D - 1) |->
                         IF k < slop_est_param_idx
                         THEN [st.slop[k] EXCEPT ![i] = st.slop[k][i] - delta[k + 1]]
                         ELSE st.slop[k]],
             !.threshold = [st.threshold EXCEPT ![i] = st.threshold[i] - delta[0]],
             !.slop_delta_list = [k \in 0..(D - 1) |->
                         IF k < slop_est_param_idx
                         THEN [st.slop_delta_list[k] EXCEPT ![i] = delta[k + 1]]
                         ELSE st.slop_delta_list[k]],
             !.threshold_delta_list = [st.threshold_delta_list EXCEPT ![i] = delta[0]]]

NextFixEager(fix_param_size) == IF fix_param_size > 1 THEN fix_param_size - 2 ELSE 0

\* if fix_param_size > 0: fix_param_size -= 1
NextFix(fix_param_size) == IF fix_param_size > 0 THEN fix_param_size - 1 ELSE fix_param_size

RECURSIVE ItemLoopSkip(_, _, _, _, _, _, _)
ItemLoopSkip(st, i, fix_param_size, jac_all, fake_hess, theta_comb, D) ==
  IF i < 0 THEN st
  ELSE LET nxt == ItemBody(st, i, fix_param_size, jac_all, fake_hess, theta_comb, D) IN
       ItemLoopSkip(IF nxt.err # "none" THEN st ELSE nxt, i - 1, NextFix(fix_param_size),
                    jac_all, fake_hess, theta_comb, D)

RECURSIVE ItemLoop(_, _, _, _, _, _, _)
\* while i >= 0: ...; i -= 1; a LinAlgError leaves the loop and _m_step
ItemLoop(st, i, fix_param_size, jac_all, fake_hess, theta_comb, D) ==
  IF i < 0 THEN st
  ELSE LET nxt == ItemBody(st, i, fix_param_size, jac_all, fake_hess, theta_comb, D) IN
       IF nxt.err # "none" THEN nxt
       ELSE ItemLoop(nxt, i - 1, NextFix(fix_param_size), jac_all, fake_hess, theta_comb, D)

\* dp and ddp are the residual and curvature matrices of lines 49-50
m_step(dp, ddp, slop, threshold, theta, theta_comb, nn, ni, D) ==
  LET jac_all == JacAll(dp, theta, nn, ni, D)
      fake_hess == FakeHess(ddp, theta, theta_comb, nn, ni, D)
      st0 == [slop |-> slop, threshold |-> threshold,
              slop_delta_list |-> [k \in 0..(D - 1) |-> [j \in 0..(ni - 1) |-> 0]],
              threshold_delta_list |-> [j \in 0..(ni - 1) |-> 0],
              err |-> "none", failed |-> -1]
  IN ItemLoop(st0, ni - 1, D - 1, jac_all, fake_hess, theta_comb, D)

\* ------------------------------------------------------------------ _get_factor_loadings
\* the rotated loadings are a function of slop alone; GPForth is not modelled
get_factor_loadings(slop) == <<"loadings", slop>>

\* ------------------------------------------------------------------ state
VARIABLES
  pc,                    \* where the caller is: new, ready, running, done, raised, ...
  dim_size,              \* self._dim_size
  n_items,               \* self.scores.shape[1]
  nodes,                 \* self._nodes
  theta_comb,            \* self._theta_comb
  e_step,                \* the (dp, ddp) the probabilities and the E-step can give
  seed,                  \* the arrays __init__ starts from, with their shapes
  init_slop,             \* self._init_slop, which fit() binds to slop
  init_threshold,        \* self._init_threshold, which fit() binds to threshold
  max_iter,              \* self._max_iter
  tol,                   \* self._tol
  it,                    \* iterations of the for loop of fit() completed
  slop_delta_list,       \* the last _m_step's slop_delta_list
  threshold_delta_list,  \* the last _m_step's threshold_delta_list
  prev,                  \* slop and threshold when the last _m_step was entered
  e_out,                 \* the (dp, ddp) the last _m_step was given
  failed,                \* the item whose solve raised, or -1
  ret,                   \* the tuple fit() returned
  warning,               \* the values warnings.warn reported
  outcome,               \* how fit() left: none, CONVERGED, MAX_ITER_EXCEEDED, LinAlgError
  starts,                \* the (slop, threshold) each call of fit() started from
  hcase,                 \* the input of _get_hess when it is studied alone
  hess,                  \* its result
  par                    \* one _m_step whose items are solved in any order

cfgvars == <<dim_size, n_items, nodes, theta_comb, e_step, seed, max_iter, tol>>

runvars == <<init_slop, init_threshold, it, slop_delta_list, threshold_delta_list,
             prev, e_out, failed, ret, warning, outcome, starts>>

fitvars == <<cfgvars, runvars>>

vars == <<pc, fitvars, hcase, hess, par>>

\* ------------------------------------------------------------------ inputs
RECURSIVE Factorial(_)
Factorial(m) == IF m <= 1 THEN 1 ELSE m * Factorial(m - 1)

\* the unit of the residuals: every Newton step of the grid below is a whole number
DpUnit == Factorial(MaxDim)

TolVals == {1, (DpUnit \div 2) + 1, DpUnit + 1}

\* get_nodes_weights(dim_size): the origin and the unit points
NodeGrid(D) == [r \in 0..D |-> [k \in 0..(D - 1) |-> IF r = k + 1 THEN 1 ELSE 0]]

NumNodes(D) == D + 1

\* one item's column of (dp, ddp) over the nodes: no exposure at all (flat), the
\* model fits the expected counts (dp = 0), or it misses them away from the origin
EStepCols(D) ==
  LET Zero == [r \in 0..D |-> 0]
      One == [r \in 0..D |-> 1]
      Off == [r \in 0..D |-> IF r = 0 THEN 0 ELSE DpUnit]
  IN {c \in [dp : {Zero, Off}, ddp : {Zero, One}] : c.ddp = Zero => c.dp = Zero}

ColsDp(cols, D, ni) == Dense([r \in 0..D |-> [i \in 0..(ni - 1) |-> cols[i].dp[r]]])

ColsDdp(cols, D, ni) == Dense([r \in 0..D |-> [i \in 0..(ni - 1) |-> cols[i].ddp[r]]])

\* the position-based schedule of fix_param_size that the loop of _m_step produces
FixParamSize(D, ni, i) == Max2(D - 1 - (ni - 1 - i), 0)

\* the column c gives an item with fix fixed dimensions a solve that is
\* singular or exact in whole numbers
WholeCol(c, D, fix) ==
  LET one == [i \in 0..0 |-> c]
      comb == get_theta_comb(D)
      jac_all == JacAll(ColsDp(one, D, 1), NodeGrid(D), NumNodes(D), 1, D)
      fake_hess == FakeHess(ColsDdp(one, D, 1), NodeGrid(D), comb, NumNodes(D), 1, D)
      h == get_hess(fake_hess[0], comb, D, fix)
      jac == get_jac(jac_all, 0, D, fix)
      sol == Solve(h, jac, D + 1 - fix)
  IN IF sol.err # "none" THEN TRUE ELSE Exact(h, jac, sol.x, D + 1 - fix)

\* what the E-step may hand to one M-step
EStepOutputs(D, ni) ==
  {cols \in [0..(ni - 1) -> EStepCols(D)] :
     \A i \in 0..(ni - 1) : WholeCol(cols[i], D, FixParamSize(D, ni, i))}

ConstMatrix(rows, cols, v) == [k \in 0..(rows - 1) |-> [j \in 0..(cols - 1) |-> v]]

ConstVector(cols, v) == [j \in 0..(cols - 1) |-> v]


\* ------------------------------------------------------------------ construction
Unbuilt ==
  /\ init_slop = <<>> /\ init_threshold = <<>> /\ it = 0
  /\ slop_delta_list = <<>> /\ threshold_delta_list = <<>>
  /\ prev = <<>> /\ e_out = <<>> /\ failed = -1
  /\ ret = <<>> /\ warning = <<>> /\ outcome = "none" /\ starts = <<>>

Idle ==
  /\ dim_size = 0 /\ n_items = 0 /\ nodes = <<>> /\ seed = <<>>
  /\ theta_comb = <<>> /\ e_step = {}
  /\ max_iter = 0 /\ tol = 0
  /\ Unbuilt

Fresh == Unbuilt /\ hcase = <<>> /\ hess = <<>> /\ par = <<>>

\* Mirt(dim_size, init_slop, init_threshold, max_iter, tol, scores) about to be
\* built; the seeds have the shape the model needs
Init ==
  /\ pc = "new"
  /\ dim_size \in 1..MaxDim
  /\ n_items \in 1..MaxItems
  /\ nodes = NodeGrid(dim_size)
  /\ theta_comb = get_theta_comb(dim_size)
  /\ e_step = EStepOutputs(dim_size, n_items)
  /\ max_iter \in 1..MaxIter
  /\ tol \in TolVals
  /\ \E given \in BOOLEAN :
       LET v == IF given THEN 1 ELSE 2 IN
       seed = [given |-> given, rows |-> dim_size, cols |-> n_items, tcols |-> n_items,
               slop |-> ConstMatrix(dim_size, n_items, v),
               threshold |-> ConstVector(n_items, v)]
  /\ Fresh

\* __init__, lines 13-25: copy the seeds (or derive them), then _fix_slop
Construct ==
  /\ pc = "new"
  /\ LET fixed == fix_slop(seed.slop, seed.rows, seed.cols, dim_size) IN
       IF fixed.err # "none"
       THEN /\ pc' = "ctor_error"
            /\ UNCHANGED <<init_slop, init_threshold>>
       ELSE /\ pc' = "ready"
            /\ init_slop' = fixed.slop
            /\ init_threshold' = seed.threshold
  /\ UNCHANGED <<cfgvars, it, slop_delta_list, threshold_delta_list, prev, e_out, failed,
                 ret, warning, outcome, starts, hcase, hess, par>>

\* ------------------------------------------------------------------ fit
\* lines 101-104: slop and threshold are bound to the instance's own arrays
Enter ==
  /\ pc' = "running"
  /\ it' = 0
  /\ starts' = Append(starts, <<init_slop, init_threshold>>)
  /\ ret' = <<>>
  /\ outcome' = "none"
  /\ UNCHANGED <<cfgvars, init_slop, init_threshold, slop_delta_list, threshold_delta_list,
                 prev, e_out, failed, warning, hcase, hess, par>>

\* the first call of fit()
Fit == pc = "ready" /\ Enter

\* a second call of fit() on the same instance, after the first returned
Refit == pc = "done" /\ Len(starts) < 2 /\ Enter

\* the test of line 110
ConvergedEither(sdl, tdl, D, ni, t) ==
  MaxAbs(sdl, D, ni) < t \/ MaxAbs([z \in 0..0 |-> tdl], 1, ni) < t

Converged(sdl, tdl, D, ni, t) ==
  MaxAbs(sdl, D, ni) < t /\ MaxAbs([z \in 0..0 |-> tdl], 1, ni) < t

\* the value the warning of lines 113-114 reports
WarnValueMin(sdl, tdl, D, ni) ==
  Min2(MaxAbs(sdl, D, ni), MaxAbs([z \in 0..0 |-> tdl], 1, ni))

WarnValue(sdl, tdl, D, ni) ==
  Max2(MaxAbs(sdl, D, ni), MaxAbs([z \in 0..0 |-> tdl], 1, ni))

\* the tuple of lines 112 and 115
FitReturnBare(slop, threshold) == <<slop, threshold>>

FitReturn(slop, threshold) == <<slop, threshold, get_factor_loadings(slop)>>

\* one turn of the for loop, lines 105-112: probabilities and E-step (their
\* result is the input cols), M-step on the instance's arrays, convergence test
Iterate ==
  /\ pc = "running"
  /\ it < max_iter
  /\ \E cols \in e_step :
       LET dp == ColsDp(cols, dim_size, n_items)
           ddp == ColsDdp(cols, dim_size, n_items)
           r == m_step(dp, ddp, init_slop, init_threshold, nodes, theta_comb,
                       NumNodes(dim_size), n_items, dim_size)
       IN /\ prev' = <<init_slop, init_threshold>>
          /\ e_out' = cols
          /\ failed' = r.failed
          /\ init_slop' = r.slop
          /\ init_threshold' = r.threshold
          /\ IF r.err # "none"
             THEN /\ pc' = "raised"
                  /\ outcome' = r.err
                  /\ slop_delta_list' = r.slop_delta_list
                  /\ threshold_delta_list' = r.threshold_delta_list
                  /\ UNCHANGED <<it, ret>>
             ELSE /\ slop_delta_list' = r.slop_delta_list
                  /\ threshold_delta_list' = r.threshold_delta_list
                  /\ it' = it + 1
                  /\ IF Converged(r.slop_delta_list, r.threshold_delta_list,
                                  dim_size, n_items, tol)
                     THEN /\ pc' = "done"
                          /\ outcome' = "CONVERGED"
                          /\ ret' = FitReturn(r.slop, r.threshold)
                     ELSE /\ pc' = "running"
                          /\ UNCHANGED <<outcome, ret>>
  /\ UNCHANGED <<cfgvars, warning, starts, hcase, hess, par>>

\* the for loop ran out, lines 113-115
Exhaust ==
  /\ pc = "running"
  /\ it = max_iter
  /\ warning' = Append(warning, WarnValue(slop_delta_list, threshold_delta_list,
                                          dim_size, n_items))
  /\ ret' = FitReturn(init_slop, init_threshold)
  /\ outcome' = "MAX_ITER_EXCEEDED"
  /\ pc' = "done"
  /\ UNCHANGED <<cfgvars, init_slop, init_threshold, it, slop_delta_list,
                 threshold_delta_list, prev, e_out, failed, starts, hcase, hess, par>>

Next == Construct \/ Fit \/ Iterate \/ Exhaust

Spec == Init /\ [][Next]_vars

\* ------------------------------------------------------------------ fit() called twice
RefitNext == Next \/ Refit

SpecRefit == Init /\ [][RefitNext]_vars

\* ------------------------------------------------------------------ construction alone
\* the caller's seeds may have any shape
CtorInit ==
  /\ pc = "new"
  /\ dim_size \in 1..MaxDim
  /\ n_items \in 1..MaxItems
  /\ nodes = NodeGrid(dim_size)
  /\ theta_comb = get_theta_comb(dim_size)
  /\ e_step = EStepOutputs(dim_size, n_items)
  /\ max_iter \in 1..MaxIter
  /\ tol \in TolVals
  /\ \E rows \in 1..(MaxDim + 1), cols \in 1..(MaxItems + 1), tcols \in 1..(MaxItems + 1) :
       seed = [given |-> TRUE, rows |-> rows, cols |-> cols, tcols |-> tcols,
               slop |-> ConstMatrix(rows, cols, 1),
               threshold |-> ConstVector(tcols, 1)]
  /\ Fresh

CtorNext == Construct

SpecCtor == CtorInit /\ [][CtorNext]_vars

\* ------------------------------------------------------------------ one M-step, items in any order
\* jac_all and fake_hess are computed before any item is solved, lines 49-57;
\* each item then runs the loop body with the fix_param_size of its position
ParBegin ==
  /\ pc = "ready"
  /\ \E cols \in e_step :
       par' = [cols |-> cols,
               jac_all |-> JacAll(ColsDp(cols, dim_size, n_items), nodes,
                                  NumNodes(dim_size), n_items, dim_size),
               fake_hess |-> FakeHess(ColsDdp(cols, dim_size, n_items), nodes, theta_comb,
                                      NumNodes(dim_size), n_items, dim_size),
               st |-> [slop |-> init_slop, threshold |-> init_threshold,
                       slop_delta_list |-> ConstMatrix(dim_size, n_items, 0),
                       threshold_delta_list |-> ConstVector(n_items, 0),
                       err |-> "none", failed |-> -1],
               pending |-> 0..(n_items - 1)]
  /\ pc' = "solving"
  /\ UNCHANGED <<fitvars, hcase, hess>>

ParSolve ==
  /\ pc = "solving"
  /\ par.st.err = "none"
  /\ \E i \in par.pending :
       par' = [par EXCEPT
                 !.st = ItemBody(par.st, i, FixParamSize(dim_size, n_items, i),
                                 par.jac_all, par.fake_hess, theta_comb, dim_size),
                 !.pending = par.pending \ {i}]
  /\ UNCHANGED <<pc, fitvars, hcase, hess>>

ParNext == Construct \/ ParBegin \/ ParSolve

SpecPar == Init /\ [][ParNext]_vars

\* ------------------------------------------------------------------ Hessian assembly alone
HessNodes == 1
HessThetaVals == {1, 2}
HessDdpVals == {1, 2}

HessInit ==
  /\ pc = "hess_in"
  /\ hess = <<>>
  /\ Idle
  /\ par = <<>>
  /\ \E D \in 1..MaxHessDim :
       \E fix \in 0..(D - 1) :
         \E theta \in [0..(HessNodes - 1) -> [0..(D - 1) -> HessThetaVals]] :
           \E ddp \in [0..(HessNodes - 1) -> [0..0 -> HessDdpVals]] :
             hcase = [D |-> D, fix |-> fix, theta |-> theta, ddp |-> ddp]

Assemble ==
  /\ pc = "hess_in"
  /\ hess' = get_hess(FakeHess(hcase.ddp, hcase.theta, get_theta_comb(hcase.D),
                               HessNodes, 1, hcase.D)[0],
                      get_theta_comb(hcase.D), hcase.D, hcase.fix)
  /\ pc' = "hess_out"
  /\ UNCHANGED <<hcase, par>>
  /\ UNCHANGED fitvars

HessNext == Assemble

SpecHess == HessInit /\ [][HessNext]_vars

\* ------------------------------------------------------------------ claims
\* slop[k, j] is one of the entries _fix_slop zeroes
FixedEntry(D, ni, k, j) == k >= 1 /\ j >= ni - k

\* an _m_step has run in this call of fit()
Stepped == (pc \in {"running", "done"} /\ it > 0) \/ pc = "raised"

Built == pc \in {"ready", "running", "done", "raised"}

Rows == 0..(dim_size - 1)

Items == 0..(n_items - 1)

MaxSlopDelta == MaxAbs(slop_delta_list, dim_size, n_items)

MaxThresholdDelta == MaxAbs([z \in 0..0 |-> threshold_delta_list], 1, n_items)

\* C1: after construction and after every M-step, every slope entry that
\* _fix_slop zeroes (row k >= 1, item j >= n - k) is exactly 0; the M-step
\* leaves rows D - fix_param_size(j) and above of item j as they were, with a
\* zero delta, fix_param_size(j) being max(D - 1 - (n - 1 - j), 0).
C1_FixedSlopesStayZero ==
  /\ Built =>
       \A k \in Rows, j \in Items : FixedEntry(dim_size, n_items, k, j) => init_slop[k][j] = 0
  /\ Stepped =>
       \A k \in Rows, j \in Items :
         k >= dim_size - FixParamSize(dim_size, n_items, j) =>
           /\ FixedEntry(dim_size, n_items, k, j)
           /\ slop_delta_list[k][j] = 0
           /\ init_slop[k][j] = prev[1][k][j]

C1_Witness ==
  /\ pc = "done" /\ it = 2
  /\ dim_size = 3 /\ n_items = 2
  /\ seed.slop[2][0] # 0 /\ seed.slop[1][1] # 0
  /\ slop_delta_list[1][0] # 0 /\ slop_delta_list[0][1] # 0
  /\ init_slop[2][0] = 0 /\ init_slop[1][1] = 0

\* C2: the block _get_hess returns is symmetric, also when the interaction loop
\* stops early on an index out of range.
C2_HessSymmetric ==
  pc = "hess_out" =>
    \A p \in 0..(hcase.D - hcase.fix), q \in 0..(hcase.D - hcase.fix) : hess[p][q] = hess[q][p]

C2_Witness ==
  /\ pc = "hess_out"
  /\ hcase.D = 4 /\ hcase.fix = 1
  /\ hess[1][2] # 0 /\ hess[1][3] # 0

\* C3: fit() returns as CONVERGED exactly at the first iteration whose M-step
\* gives max|slope delta| < tol and max|threshold delta| < tol; while either
\* maximum is at least tol the loop goes on; the returned slope and threshold
\* are the ones that iteration's M-step produced.
C3_StopsAtFirstConvergedIteration ==
  /\ (pc = "running" /\ it > 0) => ~(MaxSlopDelta < tol /\ MaxThresholdDelta < tol)
  /\ outcome = "MAX_ITER_EXCEEDED" => ~(MaxSlopDelta < tol /\ MaxThresholdDelta < tol)
  /\ outcome = "CONVERGED" =>
       /\ pc = "done"
       /\ MaxSlopDelta < tol /\ MaxThresholdDelta < tol
       /\ ret[1] = init_slop /\ ret[2] = init_threshold
       /\ \A k \in Rows, j \in Items : init_slop[k][j] = prev[1][k][j] - slop_delta_list[k][j]
       /\ \A j \in Items : init_threshold[j] = prev[2][j] - threshold_delta_list[j]

C3_Witness ==
  /\ outcome = "CONVERGED" /\ it = 2
  /\ MaxSlopDelta > 0 /\ MaxThresholdDelta > 0
  /\ ret[1] # prev[1]

C4_State ==
  /\ Built => it <= max_iter
  /\ pc = "done" => outcome \in {"CONVERGED", "MAX_ITER_EXCEEDED"}
  /\ outcome = "CONVERGED" => warning = <<>>
  /\ outcome = "MAX_ITER_EXCEEDED" =>
       /\ pc = "done"
       /\ it = max_iter
       /\ warning = <<Max2(MaxSlopDelta, MaxThresholdDelta)>>
       /\ ret = <<init_slop, init_threshold, get_factor_loadings(init_slop)>>

\* every step of a running fit() completes one more iteration or leaves the loop
C4_Step == pc = "running" => (it' = it + 1 \/ pc' \in {"done", "raised"})

FlatItem(i) == \A r \in DOMAIN e_out[i].ddp : e_out[i].ddp[r] = 0

C6_State ==
  /\ Stepped =>
       \A i \in Items : FlatItem(i) => (pc = "raised" /\ failed >= i)
  /\ pc = "raised" =>
       /\ outcome = Singular
       /\ failed \in Items
       /\ FlatItem(failed)
       /\ ret = <<>>
       /\ warning = <<>>
       /\ \A j \in 0..failed :
            /\ \A k \in Rows : init_slop[k][j] = prev[1][k][j] /\ slop_delta_list[k][j] = 0
            /\ init_threshold[j] = prev[2][j] /\ threshold_delta_list[j] = 0

\* C6: when the solve of an item fails in an M-step, fit() leaves with the
\* error: nothing is returned, no warning is emitted, the failing item and
\* every item below it keep the slope and threshold they had when the M-step
\* began, and no step follows the error.
C6_SingularIsFatal == []C6_State /\ [][pc # "raised"]_vars

C6_Witness ==
  /\ pc = "raised" /\ it = 1
  /\ n_items = 2 /\ failed = 0
  /\ threshold_delta_list[1] # 0
  /\ init_threshold[1] # prev[2][1]
  /\ init_threshold[0] = prev[2][0]

\* C7 as stated: seeds whose shape does not fit latent_dim or the item count
\* make the construction fail.
C7_Orig ==
  (seed.rows # dim_size \/ seed.cols # n_items \/ seed.tcols # n_items) => pc # "ready"

\* C8 as stated: a second fit() on the same instance starts from the slope and
\* threshold the first one started from.
C8_Orig == Len(starts) = 2 => starts[2] = starts[1]

\* the block the claim describes, from one row of fake_hess
RefHess(vals, comb, D, fix) ==
  LET ps == D + 1 - fix IN
  [p \in 0..(ps - 1) |->
     [q \in 0..(ps - 1) |->
        IF p = 0 THEN vals[q]
        ELSE IF q = 0 THEN vals[p]
        ELSE IF p = q THEN vals[D + 1 + (p - 1)]
        ELSE LET k == CHOOSE k \in DOMAIN comb :
                        comb[k] = <<Min2(p, q) - 1, Max2(p, q) - 1>>
             IN vals[D + D + 1 + k]]]

\* the second derivatives themselves: -sum over the nodes of ddp . x[p] . x[q],
\* x being (1, theta[0], theta[1], ...)
Curvature(ddp, theta, nn, D, fix) ==
  LET ps == D + 1 - fix
      x(r, p) == IF p = 0 THEN 1 ELSE theta[r][p - 1]
  IN [p \in 0..(ps - 1) |->
        [q \in 0..(ps - 1) |->
           -1 * SumTo([r \in 0..(nn - 1) |-> ddp[r][0] * x(r, p) * x(r, q)], nn)]]

\* C9 as stated: for every latent_dim, item and fix_param_size the block holds
\* the bias row and column, the squared terms on the diagonal and every
\* interaction of two free dimensions, in the column order of _get_theta_mat.
C9_Orig ==
  pc = "hess_out" =>
    /\ hess = RefHess(FakeHess(hcase.ddp, hcase.theta, get_theta_comb(hcase.D),
                               HessNodes, 1, hcase.D)[0],
                      get_theta_comb(hcase.D), hcase.D, hcase.fix)
    /\ hess = Curvature(hcase.ddp, hcase.theta, HessNodes, hcase.D, hcase.fix)

\* the sequential _m_step on the inputs of the M-step under way
SeqResult ==
  m_step(ColsDp(par.cols, dim_size, n_items), ColsDdp(par.cols, dim_size, n_items),
         init_slop, init_threshold, nodes, theta_comb, NumNodes(dim_size), n_items, dim_size)

====
